---- MODULE Spec2Model ----
(***************************************************************************)
(* Model of the repository ingestion engine of Astrafenix-AI:              *)
(*   src/github/fetcher.py  (GitHubFetcher)                                *)
(*   src/utils/cache.py     (SimpleCache)                                  *)
(*   src/core/config.py     (Config.CACHE_TTL)                             *)
(*                                                                         *)
(* Strings that the code inspects character by character (paths) are       *)
(* tuples of one-character strings, so that split('.'), split('/') and     *)
(* lower() are computed and not assumed.                                   *)
(***************************************************************************)
EXTENDS Naturals, Integers, Sequences, FiniteSets, TLC

(***************************************************************************)
(* Bounds of the model                                                     *)
(***************************************************************************)
\* longest entry list handed to the sampling stage in SpecSample
MaxSampleLen == 5
\* largest budget (max_files) handed to the sampling stage in SpecSample
MaxBudget == 4
\* Spec: number of fetch_with_sampling calls made one after the other
MaxCalls == 2
\* Spec: largest budget (max_files) a caller supplies
CallBudget == 2
\* Spec: number of failing responses (non-200 status, network error) upstream gives
MaxFaults == 2
\* SpecBatch: longest file list handed to _fetch_file_contents
MaxBatch == 2
\* SpecBatch: number of failing responses upstream gives
BatchFaults == 4
\* SpecSem: number of failing responses upstream gives
SemFaults == 1
\* seconds until reset that a near X-RateLimit-Reset header announces
ResetSoon == 1
\* SpecUrl: number of fetch_with_sampling calls made one after the other
UrlCalls == 2
\* SpecQuota: number of quota-exhaustion responses upstream gives
QuotaFaults == 5
\* SpecRetry: number of failing responses, network errors and timeouts
RetryFaults == 4
\* SpecHeaders: number of failing responses and network errors upstream gives
HeaderFaults == 2
\* SpecCancel: number of failing responses and network errors upstream gives
CancelFaults == 1
\* SpecWarm: number of fetch_with_sampling calls made one after the other
WarmCalls == 2
\* SpecWarm: number of failing responses and network errors upstream gives
WarmFaults == 1
\* SpecCache: maxsize of the SimpleCache under test
CacheCap == 2
\* SpecCache: number of set calls
MaxSets == 3
\* SpecCache: largest ttl handed to set
MaxTtl == 2

(***************************************************************************)
(* State                                                                   *)
(***************************************************************************)
VARIABLES
  s_files,   \* SpecSample: the entry list handed to the sampler
  s_max,     \* SpecSample: max_files
  s_out,     \* SpecSample: the list returned
  s_first,   \* SpecSample: the list the call before returned
  s_pc,      \* SpecSample: "input" | "staged" | "sampled" | "again"
  c_op,      \* SpecCache: the last call on the cache: name, key, value (given to
             \* set, returned by get) and the store before the call
  c_last,    \* SpecCache, history: per key the value and the seconds left of the
             \* most recent set
  c_sets,    \* SpecCache, history: set calls so far
  cache,                \* utils.cache.cache (SimpleCache.cache)
  rate_limit_remaining, \* GitHubFetcher.rate_limit_remaining
  rate_limit_reset,     \* GitHubFetcher.rate_limit_reset, as seconds from now
  api_calls,            \* GitHubFetcher.api_calls
  phase,     \* where fetch_with_sampling stands: "idle" | "repo" | "tree" | "content"
  op,        \* the locals of the running (or last) fetch_with_sampling call
  req,       \* per coroutine (0: fetch_with_sampling, i: the task of file i)
             \* its _make_request frames: pc, retry_count, permits held, sleep left
  tasks,     \* per file task: the value _fetch_single_file returned, and how
  nstarted,  \* how many tasks of the gather have run to their first await
  ret,       \* what the last call returned: (files, total)
  how,       \* history: by which return statement the last call returned
  issued,    \* history: session.get calls made by the running (or last) call
  prev,      \* history: url, budget, branch, result and return statement of the
             \* call before, and the seconds between its return and the running call
  age,       \* history: seconds since the last call returned
  ncalls,    \* history: calls made so far
  faults,    \* history: failing responses so far
  cancelled, \* history: the number of the call its caller cancelled, 0 for none
  resp,      \* history: the last response received: its status, whether its
             \* body has the rate-limit marker, its rate-limit headers
  limits     \* the calls the callers make and the failures upstream gives

svars == <<s_files, s_max, s_out, s_first, s_pc>>

fvars == <<cache, rate_limit_remaining, rate_limit_reset, api_calls, phase, op,
           req, tasks, nstarted, ret, how, issued, prev, age, ncalls, faults, resp,
           cancelled, limits>>

cvars == <<c_op, c_last, c_sets>>

vars == <<svars, cvars, fvars>>

(***************************************************************************)
(* Generic helpers                                                         *)
(***************************************************************************)
Min(a, b) == IF a <= b THEN a ELSE b

Max(a, b) == IF a >= b THEN a ELSE b

Range(s) == {s[i] : i \in 1..Len(s)}

\* s[:n] of Python, for n >= 0
Prefix(s, n) == SubSeq(s, 1, Min(n, Len(s)))

\* x in s, for a Python list s
InSeq(x, s) == \E i \in 1..Len(s) : s[i] = x

RECURSIVE SeqsOfDistinct(_, _)
\* the sequences of at most n pairwise distinct elements of S
SeqsOfDistinct(S, n) ==
  IF n = 0 THEN {<<>>}
  ELSE LET shorter == SeqsOfDistinct(S, n - 1)
       IN  shorter \cup
           {Append(p[1], p[2]) :
              p \in {q \in shorter \X S : Len(q[1]) = n - 1 /\ ~InSeq(q[2], q[1])}}

(***************************************************************************)
(* Characters: str.lower() on the letters the model's paths use            *)
(***************************************************************************)
LowerChar(c) ==
  CASE c = "A" -> "a" [] c = "D" -> "d" [] c = "E" -> "e" [] c = "I" -> "i"
    [] c = "M" -> "m" [] c = "P" -> "p" [] c = "R" -> "r" [] c = "Y" -> "y"
    [] OTHER -> c

Lower(s) == [i \in 1..Len(s) |-> LowerChar(s[i])]

\* index of the last occurrence of character c in s, 0 when there is none
LastIndex(s, c) ==
  LET hits == {i \in 1..Len(s) : s[i] = c}
  IN  IF hits = {} THEN 0 ELSE CHOOSE i \in hits : \A j \in hits : j <= i

\* s.split(c)[-1]
AfterLast(s, c) == SubSeq(s, LastIndex(s, c) + 1, Len(s))

(***************************************************************************)
(* GitHubFetcher._get_extension and GitHubFetcher._is_relevant_file        *)
(***************************************************************************)
NO_EXT == <<"n", "o", "_", "e", "x", "t">>

_get_extension(path) ==
  IF LastIndex(path, ".") # 0 THEN Lower(AfterLast(path, ".")) ELSE NO_EXT

relevant_extensions ==
  { <<"p", "y">>, <<"j", "s">>, <<"j", "s", "x">>, <<"t", "s">>,
    <<"h", "t", "m", "l">>, <<"c", "s", "s">>, <<"j", "s", "o", "n">>,
    <<"m", "d">>, <<"t", "x", "t">> }

no_ext_whitelist ==
  { <<"r", "e", "a", "d", "m", "e">>, <<"l", "i", "c", "e", "n", "s", "e">>,
    <<"m", "a", "k", "e", "f", "i", "l", "e">>,
    <<"d", "o", "c", "k", "e", "r", "f", "i", "l", "e">>,
    <<"c", "o", "n", "t", "r", "i", "b", "u", "t", "i", "n", "g">>,
    <<"c", "h", "a", "n", "g", "e", "l", "o", "g">>,
    <<"a", "u", "t", "h", "o", "r", "s">>, <<"t", "o", "d", "o">> }

_is_relevant_file(path) ==
  LET filename == Lower(AfterLast(path, "/"))
  IN  IF LastIndex(filename, ".") # 0
        THEN AfterLast(filename, ".") \in relevant_extensions
        ELSE filename \in no_ext_whitelist

(***************************************************************************)
(* Paths of the model's upstream repository                                *)
(***************************************************************************)
P_a_py == <<"a", ".", "p", "y">>

P_b_py == <<"b", ".", "p", "y">>

P_D_PY == <<"D", ".", "P", "Y">>

P_c_js == <<"c", ".", "j", "s">>

P_e_js == <<"e", ".", "j", "s">>

P_README == <<"R", "E", "A", "D", "M", "E">>

P_i_bin == <<"i", ".", "b", "i", "n">>

P_src == <<"s", "r", "c">>

Blob(p) == [path |-> p, type |-> "blob"]

Dir(p) == [path |-> p, type |-> "tree"]

\* the relevant blob entries the sampling stage is exercised on
RelevantEntries ==
  {Blob(p) : p \in {P_a_py, P_b_py, P_D_PY, P_c_js, P_e_js, P_README}}

(***************************************************************************)
(* GitHubFetcher._smart_sample                                             *)
(***************************************************************************)
RECURSIVE extensions_of(_)
\* list(by_extension.keys()): the extensions in first-seen order
extensions_of(files) ==
  IF files = <<>> THEN <<>>
  ELSE LET before == extensions_of(SubSeq(files, 1, Len(files) - 1))
           ext    == _get_extension(files[Len(files)].path)
       IN  IF InSeq(ext, before) THEN before ELSE Append(before, ext)

\* by_extension[ext]: the entries of one extension, in input order
by_extension(files, ext) ==
  SelectSeq(files, LAMBDA f : _get_extension(f.path) = ext)

per_extension_two(max_files, n) == Max(2, max_files \div n)

\* a share per extension that is cut to 1 while the API quota is low
per_extension_by_quota(max_files, n) ==
  IF rate_limit_remaining < 10 THEN 1 ELSE Max(1, max_files \div n)

\* per_extension = max(1, max_files // len(extensions))
per_extension(max_files, n) == Max(1, max_files \div n)

RECURSIVE first_pass(_, _, _)
\* first pass: from each extension take min(per_extension, group size)
first_pass(files, exts, per) ==
  IF exts = <<>> THEN <<>>
  ELSE Prefix(by_extension(files, Head(exts)), per)
         \o first_pass(files, Tail(exts), per)

\* insert ext behind every extension whose group is at least as large
InsertDesc(sorted, files, ext) ==
  LET n == Len(by_extension(files, ext))
      k == Cardinality({i \in 1..Len(sorted) :
                          Len(by_extension(files, sorted[i])) >= n})
  IN  SubSeq(sorted, 1, k) \o <<ext>> \o SubSeq(sorted, k + 1, Len(sorted))

\* the extensions left in first-seen order, not sorted
sorted_ext_first_seen(exts, files) == exts

RECURSIVE sorted_ext(_, _)
\* sorted(extensions, key=group size, reverse=True): stable, largest first
sorted_ext(exts, files) ==
  IF exts = <<>> THEN <<>>
  ELSE InsertDesc(sorted_ext(SubSeq(exts, 1, Len(exts) - 1), files),
                  files, exts[Len(exts)])

second_pass_skipped(sorted, files, sampled, remaining) == sampled

RECURSIVE second_pass_unfiltered(_, _, _, _)
\* a second pass without the "if f not in sampled"
second_pass_unfiltered(sorted, files, sampled, remaining) ==
  IF sorted = <<>> \/ remaining <= 0 THEN sampled
  ELSE LET current == by_extension(files, Head(sorted))
           take    == Min(remaining, Len(current))
       IN  second_pass_unfiltered(Tail(sorted), files,
                                  sampled \o Prefix(current, take), remaining - take)

RECURSIVE second_pass(_, _, _, _)
\* second pass: fill the remaining slots from the groups, largest first
second_pass(sorted, files, sampled, remaining) ==
  IF sorted = <<>> \/ remaining <= 0 THEN sampled
  ELSE LET current == SelectSeq(by_extension(files, Head(sorted)),
                                LAMBDA f : ~InSeq(f, sampled))
           take    == Min(remaining, Len(current))
       IN  second_pass(Tail(sorted), files,
                       sampled \o Prefix(current, take), remaining - take)

_smart_sample(files, max_files) ==
  LET extensions == extensions_of(files)
  IN  IF extensions = <<>>
        \* max_files // 0 raises; the handler returns files[:max_files]
        THEN Prefix(files, max_files)
        ELSE LET per     == per_extension(max_files, Len(extensions))
                 first   == first_pass(files, extensions, per)
                 sampled == IF Len(first) < max_files
                              THEN second_pass(sorted_ext(extensions, files),
                                               files, first,
                                               max_files - Len(first))
                              ELSE first
             IN  Prefix(sampled, max_files)

\* fetch_with_sampling, "Sample if too many"
sampling_stage(relevant_files, max_files) ==
  IF Len(relevant_files) > max_files
    THEN _smart_sample(relevant_files, max_files)
    ELSE relevant_files

(***************************************************************************)
(* GitHubFetcher._parse_url.  A URL is the tuple of its characters, with    *)
(* the scheme written "h" and the host "g": "h://g/o/r.git" stands for     *)
(* "https://github.com/o/r.git".  The URLs of the model have no query and  *)
(* no fragment.                                                            *)
(***************************************************************************)
RECURSIVE RStrip(_, _)
\* s.rstrip(c)
RStrip(s, c) ==
  IF s # <<>> /\ s[Len(s)] = c THEN RStrip(SubSeq(s, 1, Len(s) - 1), c) ELSE s

RECURSIVE LStrip(_, _)
\* s.lstrip(c)
LStrip(s, c) == IF s # <<>> /\ Head(s) = c THEN LStrip(Tail(s), c) ELSE s

EndsWith(s, t) ==
  Len(s) >= Len(t) /\ SubSeq(s, Len(s) - Len(t) + 1, Len(s)) = t

RECURSIVE Split(_, _)
\* s.split(c): the pieces between the occurrences of c (never an empty list)
Split(s, c) ==
  LET hits == {i \in 1..Len(s) : s[i] = c}
  IN  IF hits = {} THEN <<s>>
      ELSE LET k == CHOOSE i \in hits : \A j \in hits : i <= j
           IN  <<SubSeq(s, 1, k - 1)>> \o Split(SubSeq(s, k + 1, Len(s)), c)

DOT_GIT == <<".", "g", "i", "t">>

\* index of the first occurrence of character c in s, 0 when there is none
FirstIndex(s, c) ==
  LET hits == {i \in 1..Len(s) : s[i] = c}
  IN  IF hits = {} THEN 0 ELSE CHOOSE i \in hits : \A j \in hits : i <= j

\* urlparse(url).path: a scheme is what stands before the first ":" when no
\* "/" comes before it, a host is what follows "//" up to the next "/"
urlparse_path(url) ==
  LET colon    == FirstIndex(url, ":")
      slash    == FirstIndex(url, "/")
      scheme   == colon > 1 /\ (slash = 0 \/ colon < slash)
      rest     == IF scheme THEN SubSeq(url, colon + 1, Len(url)) ELSE url
      has_host == Len(rest) >= 2 /\ rest[1] = "/" /\ rest[2] = "/"
      after    == SubSeq(rest, 3, Len(rest))
      k        == FirstIndex(after, "/")
  IN  IF ~has_host THEN rest
      ELSE IF k = 0 THEN <<>>
      ELSE SubSeq(after, k, Len(after))

INVALID_URL == [error |-> "ValueError"]

_parse_url(repo_url) ==
  LET stripped   == RStrip(repo_url, "/")
      clean      == IF EndsWith(stripped, DOT_GIT)
                      THEN SubSeq(stripped, 1, Len(stripped) - 4)
                      ELSE stripped
      path       == urlparse_path(clean)
      path_parts == Split(LStrip(RStrip(path, "/"), "/"), "/")
  IN  IF Len(path_parts) < 2 THEN INVALID_URL
      ELSE [owner     |-> path_parts[1],
            repo      |-> path_parts[2],
            full_name |-> path_parts[1] \o <<"/">> \o path_parts[2]]

SCHEME_HOST == <<"h", ":", "/", "/", "g">>

\* https://github.com/o/r.git
U_o_r_git == SCHEME_HOST \o <<"/", "o", "/", "r", ".", "g", "i", "t">>

\* https://github.com/o
U_o == SCHEME_HOST \o <<"/", "o">>

\* https://github.com/o/r/
U_o_r_slash == SCHEME_HOST \o <<"/", "o", "/", "r", "/">>

\* https://github.com
U_host == SCHEME_HOST

\* https://github.com/o/.git
U_o_git == SCHEME_HOST \o <<"/", "o", "/", ".", "g", "i", "t">>

\* github.com/o
U_bare_o == <<"g", "/", "o">>

\* https://github.com/o//r
U_o__r == SCHEME_HOST \o <<"/", "o", "/", "/", "r">>

\* the URLs callers pass
Urls == {U_o_r_git, U_o}

\* the URLs callers pass in SpecUrl
WideUrls == {U_o_r_git, U_o_r_slash, U_o, U_host, U_o_git, U_bare_o, U_o__r}

(***************************************************************************)
(* SimpleCache (src/utils/cache.py).  The OrderedDict is a sequence of     *)
(* entries, oldest insertion first; expiry is kept as the seconds left     *)
(* until expiry, so "expiry > time.time()" reads "expiry > 0".             *)
(***************************************************************************)
\* SimpleCache(maxsize=100)
maxsize == 100

\* Config.CACHE_TTL
CACHE_TTL == 300

None == [none |-> TRUE]

CacheIndex(c, key) ==
  LET hits == {i \in 1..Len(c) : c[i].key = key}
  IN  IF hits = {} THEN 0 ELSE CHOOSE i \in hits : TRUE

CacheRemoveAt(c, i) == SubSeq(c, 1, i - 1) \o SubSeq(c, i + 1, Len(c))

\* a get that still returns a value at the very second it expires
cache_get_value_inclusive(c, key) ==
  LET i == CacheIndex(c, key)
  IN  IF i # 0 /\ c[i].expiry >= 0 THEN c[i].value ELSE None

\* the value SimpleCache.get returns
cache_get_value(c, key) ==
  LET i == CacheIndex(c, key)
  IN  IF i # 0 /\ c[i].expiry > 0 THEN c[i].value ELSE None

\* a get that leaves an expired entry in the store
cache_get_store_keep(c, key) == c

\* the cache SimpleCache.get leaves: an expired entry is deleted
cache_get_store(c, key) ==
  LET i == CacheIndex(c, key)
  IN  IF i # 0 /\ ~(c[i].expiry > 0) THEN CacheRemoveAt(c, i) ELSE c

\* a set that stores time.time() as the expiry, without the ttl
cache_set_no_ttl(c, cap, key, value, ttl) ==
  LET evicted == IF Len(c) >= cap THEN Tail(c) ELSE c
      i       == CacheIndex(evicted, key)
      entry   == [key |-> key, value |-> value, expiry |-> 0]
  IN  IF i # 0 THEN [evicted EXCEPT ![i] = entry]
      ELSE Append(evicted, entry)

\* a set that at capacity evicts an expired entry when there is one, and the
\* oldest entry otherwise
cache_set_evict_expired(c, cap, key, value, ttl) ==
  LET dead    == {i \in 1..Len(c) : c[i].expiry = 0}
      victim  == IF dead = {} THEN 1 ELSE CHOOSE i \in dead : \A j \in dead : i <= j
      evicted == IF Len(c) >= cap THEN CacheRemoveAt(c, victim) ELSE c
      i       == CacheIndex(evicted, key)
      entry   == [key |-> key, value |-> value, expiry |-> ttl]
  IN  IF i # 0 THEN [evicted EXCEPT ![i] = entry]
      ELSE Append(evicted, entry)

\* a set that evicts only once the store is over capacity
cache_set_evict_late(c, cap, key, value, ttl) ==
  LET evicted == IF Len(c) > cap THEN Tail(c) ELSE c
      i       == CacheIndex(evicted, key)
      entry   == [key |-> key, value |-> value, expiry |-> ttl]
  IN  IF i # 0 THEN [evicted EXCEPT ![i] = entry]
      ELSE Append(evicted, entry)

\* SimpleCache.set
cache_set(c, cap, key, value, ttl) ==
  LET evicted == IF Len(c) >= cap THEN Tail(c) ELSE c
      i       == CacheIndex(evicted, key)
      entry   == [key |-> key, value |-> value, expiry |-> ttl]
  IN  IF i # 0 THEN [evicted EXCEPT ![i] = entry]
      ELSE Append(evicted, entry)

\* the keys of the OrderedDict with their values, in its order
KeysValues(c) == [i \in 1..Len(c) |-> [key |-> c[i].key, value |-> c[i].value]]

repo_key(full_name) == <<"repo", full_name>>

file_key(full_name, path) == <<"file", full_name, path>>

(***************************************************************************)
(* Upstream (GitHub REST API): the data the three calls serve.  Failures   *)
(* are chosen freely per response; the data behind a URL is fixed.         *)
(***************************************************************************)
Branches == {"main", "master", "dev"}

BranchTree(branch) ==
  CASE branch = "dev"    -> <<Blob(P_a_py), Dir(P_src), Blob(P_b_py), Blob(P_i_bin)>>
    [] branch = "main"   -> <<Blob(P_D_PY), Blob(P_README)>>
    [] branch = "master" -> <<Blob(P_c_js)>>

\* the bytes of each file (b64decode of the body's content field)
FileBytes(path) ==
  CASE path = P_a_py   -> <<112, 61, 49>>
    [] path = P_b_py   -> <<195, 169>>
    [] path = P_c_js   -> <<255, 216>>
    [] path = P_README -> <<>>
    [] OTHER           -> <<35>>

\* a Python str: the tuple of its code points
Str(codepoints) == [str |-> codepoints]

DECODE_ERROR == [error |-> "UnicodeDecodeError"]

RECURSIVE Utf8CodePoints(_)
\* the code points of a byte string of one- and two-byte UTF-8 sequences; a
\* byte that starts no such sequence yields the code point -1
Utf8CodePoints(bytes) ==
  IF bytes = <<>> THEN <<>>
  ELSE IF bytes[1] < 128
    THEN <<bytes[1]>> \o Utf8CodePoints(Tail(bytes))
  ELSE IF /\ bytes[1] >= 194 /\ bytes[1] <= 223 /\ Len(bytes) >= 2
          /\ bytes[2] >= 128 /\ bytes[2] <= 191
    THEN <<(bytes[1] - 192) * 64 + (bytes[2] - 128)>>
           \o Utf8CodePoints(SubSeq(bytes, 3, Len(bytes)))
  ELSE <<-1>>

\* a decode that never raises (errors='replace')
Utf8Decode_replace(bytes) == Str(Utf8CodePoints(bytes))

\* base64.b64decode(data['content']).decode('utf-8')
Utf8Decode(bytes) ==
  LET cps == Utf8CodePoints(bytes)
  IN  IF \E i \in 1..Len(cps) : cps[i] < 0 THEN DECODE_ERROR ELSE Str(cps)

(***************************************************************************)
(* GitHubFetcher.__init__ and the empty module-level cache                 *)
(***************************************************************************)
\* asyncio.Semaphore(5)
SEMAPHORE == 5

\* rate_limit_remaining < 10
LOW_WATER == 10

\* max_retries = 3
max_retries == 3

\* wait_time < 3600
ONE_HOUR == 3600

\* int(resp.headers.get('X-RateLimit-Remaining', 5000))
DEFAULT_REMAINING == 5000

\* requota is history: how often the request was issued again after a
\* quota-exhaustion response
IdleFrame == [pc |-> "idle", retry |-> 0, held |-> 0, sleep |-> 0, requota |-> 0]

\* tried, answers and before are history: the branches whose tree was requested,
\* what each request yielded, and the keys and values of the cache at the call
NoOp == [url |-> <<>>, max_files |-> 0, full_name |-> <<>>, default_branch |-> "",
         branch |-> "", tried |-> <<>>, answers |-> <<>>, total |-> 0, sampled |-> <<>>,
         before |-> <<>>]

EmptyMap == <<>>

FetchIdle(calls, failures) ==
  /\ cache = <<>>
  /\ rate_limit_remaining = DEFAULT_REMAINING
  /\ rate_limit_reset = 0
  /\ api_calls = 0
  /\ phase = "idle"
  /\ op = NoOp
  /\ req = [r \in {0} |-> IdleFrame]
  /\ tasks = <<>>
  /\ nstarted = 0
  /\ ret = None
  /\ how = "none"
  /\ issued = 0
  /\ prev = None
  /\ age = 0
  /\ ncalls = 0
  /\ faults = 0
  /\ resp = None
  /\ cancelled = 0
  /\ limits = [calls |-> calls, faults |-> failures]

(***************************************************************************)
(* GitHubFetcher._make_request: the semaphore and the rate-limit check     *)
(***************************************************************************)
RECURSIVE HeldUpTo(_, _)
HeldUpTo(rq, n) == IF n < 0 THEN 0 ELSE rq[n].held + HeldUpTo(rq, n - 1)

\* permits of self.semaphore taken by the open "async with" frames
PermitsHeld(rq) == HeldUpTo(rq, Cardinality(DOMAIN rq) - 1)

semaphore_acquire_unchecked(rq, r) ==
  [rq EXCEPT ![r] = [@ EXCEPT !.pc = "inflight", !.held = @ + 1, !.sleep = 0]]

\* async with self.semaphore: async with self.session.get(url)
semaphore_acquire(rq, r) ==
  IF PermitsHeld(rq) < SEMAPHORE
    THEN [rq EXCEPT ![r] = [@ EXCEPT !.pc = "inflight", !.held = @ + 1, !.sleep = 0]]
    ELSE [rq EXCEPT ![r] = [@ EXCEPT !.pc = "semwait", !.sleep = 0]]

\* entry of _make_request(url, retry_count), run to its first await
make_request_enter(rq, r, retry, remaining, reset) ==
  LET fr == [rq EXCEPT ![r].retry = retry]
  IN  IF remaining < LOW_WATER /\ reset > 0
        THEN [fr EXCEPT ![r] = [@ EXCEPT !.pc = "rlwait", !.sleep = reset]]
        ELSE semaphore_acquire(fr, r)

NewlyIssued(rq, r) == IF rq[r].pc = "inflight" THEN 1 ELSE 0

\* every task of the gather has run to its first await
Started == phase # "content" \/ nstarted = Len(op.sampled)

\* a truth test that nothing passes
Truthy_never(v) == FALSE

\* "if result:" for a str or None
Truthy(v) == v # None /\ v # Str(<<>>)

(***************************************************************************)
(* Upstream responses                                                      *)
(***************************************************************************)
Statuses == {200, 401, 403, 404, 500}

\* the pair of headers X-RateLimit-Remaining, X-RateLimit-Reset of a response;
\* a header is <<>> when absent and <<value>> when present, and the reset time
\* is given in seconds from the response
NoHeaders == <<<<>>, <<>>>>

LowSoon == <<<<5>>, <<ResetSoon>>>>

QuotaHeaders == {NoHeaders, LowSoon}

AllHeaders == {<<>>, <<5>>} \X {<<>>, <<ResetSoon>>, <<ONE_HOUR>>}

\* a header lookup that yields 0 for every absent header
headers_get_zero(header, default) == IF header = <<>> THEN 0 ELSE header[1]

\* int(resp.headers.get(name, default))
headers_get(header, default) == IF header = <<>> THEN default ELSE header[1]

Variants(r) ==
  IF r = 0 /\ phase = "repo" THEN Branches \cup {"absent"}
  ELSE IF r = 0 THEN {"ok", "empty", "malformed"}
  ELSE {"ok"}

\* resp.json() of a 200 response
Body(r, variant) ==
  IF r = 0 /\ phase = "repo" THEN [default_branch |-> variant]
  ELSE IF r = 0 THEN
    CASE variant = "ok"        -> [tree |-> BranchTree(op.branch)]
      [] variant = "empty"     -> [tree |-> <<>>]
      [] variant = "malformed" -> [message |-> "x"]
  ELSE [content |-> FileBytes(op.sampled[r].path), encoding |-> "base64"]

(***************************************************************************)
(* fetch_with_sampling after its awaits                                    *)
(***************************************************************************)
MainOnly == [r \in {0} |-> IdleFrame]

\* return {}, 0
ReturnFailure(reason) ==
  /\ ret' = [files |-> EmptyMap, total |-> 0]
  /\ how' = reason
  /\ phase' = "idle"
  /\ req' = MainOnly
  /\ age' = 0
  /\ UNCHANGED <<cache, tasks, nstarted, issued, prev, ncalls>>

\* tree = await self._get_repo_tree(repo_info, branch=branch)
RequestTree(default, branch, answered, remaining, reset) ==
  LET rq == make_request_enter(MainOnly, 0, 0, remaining, reset)
  IN  /\ op' = [op EXCEPT !.default_branch = default, !.branch = branch,
                          !.tried = Append(@, branch), !.answers = answered]
      /\ req' = rq
      /\ issued' = issued + NewlyIssued(rq, 0)
      /\ phase' = "tree"
      /\ UNCHANGED <<cache, tasks, nstarted, ret, how, prev, age, ncalls>>

RECURSIVE Contents_break(_, _)
\* the combining loop leaving at the first failed result
Contents_break(sampled, tsk) ==
  IF sampled = <<>> \/ ~Truthy(tsk[1].result) THEN <<>>
  ELSE <<[path      |-> sampled[1].path,
          content   |-> tsk[1].result,
          size      |-> Len(tsk[1].result.str),
          extension |-> _get_extension(sampled[1].path)]>>
         \o Contents_break(Tail(sampled), [i \in 1..(Len(sampled) - 1) |-> tsk[i + 1]])

RECURSIVE Contents(_, _)
\* _fetch_file_contents, "Combine results": the dict, as the sequence of its
\* values in insertion order
Contents(sampled, tsk) ==
  IF sampled = <<>> THEN <<>>
  ELSE LET n    == Len(sampled)
           init == Contents(SubSeq(sampled, 1, n - 1), tsk)
       IN  IF Truthy(tsk[n].result)
             THEN Append(init, [path      |-> sampled[n].path,
                                content   |-> tsk[n].result,
                                size      |-> Len(tsk[n].result.str),
                                extension |-> _get_extension(sampled[n].path)])
             ELSE init

\* cache.set(cache_key, {'files': files, 'total': total_count}); return
ReturnFetched(files, total) ==
  /\ cache' = cache_set(cache, maxsize, repo_key(op.full_name),
                        [files |-> files, total |-> total], CACHE_TTL)
  /\ ret' = [files |-> files, total |-> total]
  /\ how' = "fetched"
  /\ age' = 0
  /\ phase' = "idle"

\* filter, sample, and start _fetch_file_contents
ContentStage(all_files, answered) ==
  LET relevant_files == SelectSeq(all_files,
                          LAMBDA f : f.type = "blob" /\ _is_relevant_file(f.path))
      sampled_files  == sampling_stage(relevant_files, op.max_files)
      n              == Len(sampled_files)
  IN  /\ op' = [op EXCEPT !.total = Len(all_files), !.sampled = sampled_files,
                          !.answers = answered]
      /\ IF n = 0
           THEN /\ ReturnFetched(EmptyMap, Len(all_files))
                /\ req' = MainOnly
                /\ UNCHANGED <<tasks, nstarted, issued, prev, ncalls>>
           ELSE /\ phase' = "content"
                /\ req' = [r \in 0..n |-> IdleFrame]
                /\ tasks' = [i \in 1..n |-> [result |-> None, outcome |-> "pending"]]
                /\ nstarted' = 0
                /\ UNCHANGED <<cache, ret, how, issued, prev, age, ncalls>>

\* the fallback list without the "if branch == default_branch: continue"
Fallbacks_unfiltered(default) == <<"main", "master">>

Fallbacks(default) == SelectSeq(<<"main", "master">>, LAMBDA b : b # default)

\* fetch_with_sampling resumes with the result of its request
FinishMain(data, failure, remaining, reset) ==
  IF phase = "repo" THEN
    IF data = None THEN ReturnFailure("no_repo") /\ UNCHANGED op
    ELSE LET default == IF data.default_branch = "absent" THEN "main"
                        ELSE data.default_branch
         IN  RequestTree(default, default, <<>>, remaining, reset)
  ELSE
    IF data # None /\ "tree" \in DOMAIN data
      THEN ContentStage(data.tree, Append(op.answers, "valid"))
    ELSE LET rest     == Fallbacks(op.default_branch)
             done     == Len(op.tried) - 1
             answered == Append(op.answers,
                                IF data = None THEN failure ELSE "malformed")
         IN  IF done < Len(rest)
               THEN RequestTree(op.default_branch, rest[done + 1], answered,
                                remaining, reset)
               ELSE /\ ReturnFailure("no_tree")
                    /\ op' = [op EXCEPT !.answers = answered]

\* _fetch_single_file resumes with the result of its request
FinishTask(i, data, failure) ==
  LET path    == op.sampled[i].path
      usable  == data # None /\ data.content # <<>> /\ data.encoding = "base64"
      content == IF usable THEN Utf8Decode(data.content) ELSE None
      ok      == usable /\ content # DECODE_ERROR
  IN  /\ tasks' = [tasks EXCEPT ![i] =
                     [result  |-> IF ok THEN content ELSE None,
                      outcome |-> IF data = None THEN failure
                                  ELSE IF ~usable THEN "nocontent"
                                  ELSE IF ok THEN "ok" ELSE "binary"]]
      /\ cache' = IF ok THEN cache_set(cache, maxsize, file_key(op.full_name, path),
                                       content, CACHE_TTL)
                  ELSE cache
      /\ req' = [req EXCEPT ![i] = [IdleFrame EXCEPT !.pc = "done"]]
      /\ UNCHANGED <<phase, op, nstarted, ret, how, issued, prev, age, ncalls>>

\* _make_request returns data to its caller
Finish(r, data, failure, remaining, reset) ==
  IF r = 0 THEN FinishMain(data, failure, remaining, reset)
  ELSE FinishTask(r, data, failure)

\* await asyncio.sleep(d) inside _make_request
Sleep(r, pc, d) ==
  /\ req' = [req EXCEPT ![r] = [@ EXCEPT !.pc = pc, !.sleep = d]]
  /\ UNCHANGED <<cache, phase, op, tasks, nstarted, ret, how, issued, prev, age, ncalls>>

(***************************************************************************)
(* Actions of the fetch pipeline                                           *)
(***************************************************************************)
\* fetch_with_sampling(repo_url, max_files), run to its first await
Call(repo_url, budget) ==
  /\ phase = "idle"
  /\ ncalls < limits.calls
  /\ ncalls' = ncalls + 1
  /\ prev' = IF ncalls = 0 THEN None
             ELSE [url |-> op.url, max_files |-> op.max_files, ret |-> ret, how |-> how,
                   gap |-> age, branch |-> op.branch]
  /\ tasks' = <<>>
  /\ nstarted' = 0
  /\ LET repo_info == _parse_url(repo_url)
         fresh     == [NoOp EXCEPT !.url = repo_url, !.max_files = budget,
                                   !.before = KeysValues(cache)]
     IN  IF repo_info = INVALID_URL
           THEN /\ op' = fresh
                /\ ret' = [files |-> EmptyMap, total |-> 0]
                /\ how' = "invalid_url"
                /\ issued' = 0
                /\ req' = MainOnly
                /\ age' = 0
                /\ UNCHANGED <<cache, phase>>
           ELSE LET key    == repo_key(repo_info.full_name)
                    cached == cache_get_value(cache, key)
                    rq     == make_request_enter(MainOnly, 0, 0, rate_limit_remaining,
                                                 rate_limit_reset)
                IN  /\ op' = [fresh EXCEPT !.full_name = repo_info.full_name]
                    /\ cache' = cache_get_store(cache, key)
                    /\ IF cached # None
                         THEN /\ ret' = [files |-> cached.files, total |-> cached.total]
                              /\ how' = "hit"
                              /\ issued' = 0
                              /\ req' = MainOnly
                              /\ age' = 0
                              /\ UNCHANGED phase
                         ELSE /\ ret' = None
                              /\ how' = "running"
                              /\ req' = rq
                              /\ issued' = NewlyIssued(rq, 0)
                              /\ phase' = "repo"
                              /\ UNCHANGED age
  /\ UNCHANGED <<rate_limit_remaining, rate_limit_reset, api_calls, faults, limits>>
  /\ UNCHANGED <<resp, cancelled>>
  /\ UNCHANGED <<svars, cvars>>

\* task i of the gather: _fetch_single_file, run to its first await
StartTask(i) ==
  /\ phase = "content"
  /\ nstarted = i - 1
  /\ i <= Len(op.sampled)
  /\ nstarted' = i
  /\ LET key    == file_key(op.full_name, op.sampled[i].path)
         cached == cache_get_value(cache, key)
         rq     == make_request_enter(req, i, 0, rate_limit_remaining, rate_limit_reset)
     IN  /\ cache' = cache_get_store(cache, key)
         /\ IF Truthy(cached)
              THEN /\ tasks' = [tasks EXCEPT ![i] = [result |-> cached, outcome |-> "hit"]]
                   /\ req' = [req EXCEPT ![i] = [IdleFrame EXCEPT !.pc = "done"]]
                   /\ UNCHANGED issued
              ELSE /\ req' = rq
                   /\ issued' = issued + NewlyIssued(rq, i)
                   /\ UNCHANGED tasks
  /\ UNCHANGED <<rate_limit_remaining, rate_limit_reset, api_calls, phase, op, ret, how,
                 prev, age, ncalls, faults, limits>>
  /\ UNCHANGED <<resp, cancelled>>
  /\ UNCHANGED <<svars, cvars>>

\* the wait test without the one-hour ceiling
wait_is_short_no_ceiling(wait_time) == wait_time > 0

\* "if wait_time > 0 and wait_time < 3600"
wait_is_short(wait_time) == wait_time > 0 /\ wait_time < ONE_HOUR

\* a write of which one half only has become visible
rate_limit_write_torn(remaining, reset) == <<rate_limit_remaining, reset>>

\* self.rate_limit_remaining = ...; self.rate_limit_reset = ...: two
\* assignments with no await between them
rate_limit_write(remaining, reset) == <<remaining, reset>>

\* a retry test that takes every error status for a server error
retry_any_error(status, retry_count) == status >= 400 /\ retry_count < max_retries

\* "if resp.status >= 500 and retry_count < max_retries"
retry_server_error(status, retry_count) == status >= 500 /\ retry_count < max_retries

\* a response arrives for the request of coroutine r
Response(r, statuses, headers) ==
  /\ Started
  /\ req[r].pc = "inflight"
  /\ \E status \in statuses, marker \in BOOLEAN, h \in headers, variant \in Variants(r) :
       /\ status # 200 => faults < limits.faults
       /\ marker => status = 403
       /\ status # 200 => variant = CHOOSE v \in Variants(r) : TRUE
       /\ LET remaining == headers_get(h[1], DEFAULT_REMAINING)
              reset     == headers_get(h[2], 0)
          IN  /\ api_calls' = api_calls + 1
              /\ resp' = [status |-> status, marker |-> marker, headers |-> h]
              /\ rate_limit_remaining' = rate_limit_write(remaining, reset)[1]
              /\ rate_limit_reset' = rate_limit_write(remaining, reset)[2]
              /\ faults' = IF status = 200 THEN faults ELSE faults + 1
              /\ IF status = 403 /\ marker
                   THEN IF wait_is_short(reset)
                          THEN Sleep(r, "sleep403", reset)
                          ELSE Finish(r, None, "quota", remaining, reset)
                 ELSE IF retry_server_error(status, req[r].retry)
                   THEN Sleep(r, "sleep5xx", 2 ^ req[r].retry)
                 ELSE IF status = 200
                   THEN Finish(r, Body(r, variant), "", remaining, reset)
                 ELSE IF status = 404
                   THEN Finish(r, None, "http404", remaining, reset)
                 ELSE IF status = 401
                   \* raise ValueError, caught by "except Exception": return None
                   THEN Finish(r, None, "http401", remaining, reset)
                 ELSE IF status = 403
                   THEN Finish(r, None, "http403", remaining, reset)
                 ELSE Finish(r, None, "http500", remaining, reset)
  /\ UNCHANGED <<cancelled, limits>>
  /\ UNCHANGED <<svars, cvars>>

\* aiohttp.ClientError instead of a response
NetworkError(r) ==
  /\ Started
  /\ req[r].pc = "inflight"
  /\ faults < limits.faults
  /\ faults' = faults + 1
  /\ IF req[r].retry < max_retries
       THEN /\ req' = [req EXCEPT ![r] = [@ EXCEPT !.pc = "sleepnet", !.held = @ - 1,
                                                   !.sleep = 2 ^ req[r].retry]]
            /\ UNCHANGED <<cache, phase, op, tasks, nstarted, ret, how, issued, prev,
                           age, ncalls>>
       ELSE Finish(r, None, "neterr", rate_limit_remaining, rate_limit_reset)
  /\ UNCHANGED <<rate_limit_remaining, rate_limit_reset, api_calls, limits>>
  /\ UNCHANGED <<resp, cancelled>>
  /\ UNCHANGED <<svars, cvars>>

\* asyncio.TimeoutError instead of a response (the total timeout of the
\* session): not an aiohttp.ClientError, so "except Exception" returns None
RequestTimeout(r) ==
  /\ Started
  /\ req[r].pc = "inflight"
  /\ faults < limits.faults
  /\ faults' = faults + 1
  /\ Finish(r, None, "timeout", rate_limit_remaining, rate_limit_reset)
  /\ UNCHANGED <<rate_limit_remaining, rate_limit_reset, api_calls, limits>>
  /\ UNCHANGED <<resp, cancelled>>
  /\ UNCHANGED <<svars, cvars>>

\* an asyncio.sleep of _make_request ends
Wake(r) ==
  /\ Started
  /\ req[r].pc \in {"rlwait", "sleep403", "sleep5xx", "sleepnet"}
  /\ req[r].sleep = 0
  /\ LET rq == CASE req[r].pc = "rlwait"   -> semaphore_acquire(req, r)
                 [] req[r].pc = "sleep403" ->
                      make_request_enter([req EXCEPT ![r].requota = @ + 1], r,
                                         req[r].retry, rate_limit_remaining,
                                         rate_limit_reset)
                 [] OTHER ->
                      make_request_enter(req, r, req[r].retry + 1, rate_limit_remaining,
                                         rate_limit_reset)
     IN  /\ req' = rq
         /\ issued' = issued + NewlyIssued(rq, r)
  /\ UNCHANGED <<cache, rate_limit_remaining, rate_limit_reset, api_calls, phase, op,
                 tasks, nstarted, ret, how, prev, age, ncalls, faults, limits>>
  /\ UNCHANGED <<resp, cancelled>>
  /\ UNCHANGED <<svars, cvars>>

\* a coroutine waiting in "async with self.semaphore" gets a permit
Acquire(r) ==
  /\ Started
  /\ req[r].pc = "semwait"
  /\ PermitsHeld(req) < SEMAPHORE
  /\ req' = semaphore_acquire(req, r)
  /\ issued' = issued + 1
  /\ UNCHANGED <<cache, rate_limit_remaining, rate_limit_reset, api_calls, phase, op,
                 tasks, nstarted, ret, how, prev, age, ncalls, faults, limits>>
  /\ UNCHANGED <<resp, cancelled>>
  /\ UNCHANGED <<svars, cvars>>

\* an "except" clause that catches every exception class, BaseException too
except_BaseException(exc) == TRUE

\* "except Exception": the classes it catches among those raised at the awaits
\* of the fetcher; asyncio.CancelledError derives from BaseException
except_Exception(exc) == exc \in {"ClientError", "TimeoutError", "ValueError"}

\* what a call that raised leaves to its caller
Raised(exc) == [raised |-> exc]

\* the caller cancels the running call (task.cancel(), asyncio.wait_for):
\* CancelledError is raised at the await where fetch_with_sampling is
\* suspended, inside the try of _make_request (semaphore, request, sleeps of
\* the 403 and 5xx branches) or outside it (rate-limit wait, sleep of the
\* ClientError handler, the gather, whose tasks are cancelled with it)
Cancel ==
  /\ phase # "idle"
  /\ cancelled' = ncalls
  /\ IF except_Exception("CancelledError")
       THEN IF /\ phase # "content"
               /\ req[0].pc \in {"semwait", "inflight", "sleep403", "sleep5xx"}
              \* _make_request: "except Exception": return None
              THEN Finish(0, None, "cancelled", rate_limit_remaining, rate_limit_reset)
              \* fetch_with_sampling: "except Exception": return {}, 0
              ELSE ReturnFailure("fatal") /\ UNCHANGED op
       ELSE /\ ret' = Raised("CancelledError")
            /\ how' = "cancelled"
            /\ phase' = "idle"
            /\ req' = MainOnly
            /\ age' = 0
            /\ UNCHANGED <<cache, op, tasks, nstarted, issued, prev, ncalls>>
  /\ UNCHANGED <<rate_limit_remaining, rate_limit_reset, api_calls, faults, resp, limits>>
  /\ UNCHANGED <<svars, cvars>>

\* asyncio.gather is complete: _fetch_file_contents combines, fetch_with_sampling
\* caches and returns
GatherReturn ==
  /\ phase = "content"
  /\ nstarted = Len(op.sampled)
  /\ \A i \in 1..Len(op.sampled) : req[i].pc = "done"
  /\ ReturnFetched(Contents(op.sampled, tasks), op.total)
  /\ UNCHANGED <<rate_limit_remaining, rate_limit_reset, api_calls, op, req, tasks,
                 nstarted, issued, prev, ncalls, faults, limits>>
  /\ UNCHANGED <<resp, cancelled>>
  /\ UNCHANGED <<svars, cvars>>

Timers ==
  {rate_limit_reset} \cup {req[r].sleep : r \in DOMAIN req}
    \cup {cache[i].expiry : i \in 1..Len(cache)}

Sleeping(r) == req[r].pc \in {"rlwait", "sleep403", "sleep5xx", "sleepnet"}

\* time passes up to the next deadline (a sleep, the reset time, a cache expiry)
Tick ==
  /\ Started
  \* once the last call has returned nothing reads the clock any more
  /\ phase # "idle" \/ ncalls < limits.calls
  /\ \A r \in DOMAIN req : ~(Sleeping(r) /\ req[r].sleep = 0)
  /\ \A r \in DOMAIN req : ~(req[r].pc = "semwait" /\ PermitsHeld(req) < SEMAPHORE)
  /\ \E d \in Timers :
       /\ d > 0
       /\ \A t \in Timers : t > 0 => d <= t
       /\ rate_limit_reset' = Max(rate_limit_reset - d, 0)
       /\ req' = [r \in DOMAIN req |-> [req[r] EXCEPT !.sleep = Max(@ - d, 0)]]
       /\ cache' = [i \in 1..Len(cache) |->
                      [cache[i] EXCEPT !.expiry = Max(@ - d, 0)]]
       /\ age' = IF phase = "idle" THEN Min(age + d, CACHE_TTL) ELSE age
  /\ UNCHANGED <<rate_limit_remaining, api_calls, phase, op, tasks, nstarted, ret, how,
                 issued, prev, ncalls, faults, limits>>
  /\ UNCHANGED <<resp, cancelled>>
  /\ UNCHANGED <<svars, cvars>>

\* no SimpleCache under test
CacheOff ==
  /\ c_op = [name |-> "none"]
  /\ c_last = <<>>
  /\ c_sets = 0

SamplerOff ==
  /\ CacheOff
  /\ s_files = <<>>
  /\ s_max = 0
  /\ s_out = <<>>
  /\ s_first = <<>>
  /\ s_pc = "off"

(***************************************************************************)
(* Spec: a fetcher and the module-level cache from construction on, under  *)
(* calls made one after the other                                          *)
(***************************************************************************)
Init ==
  /\ FetchIdle(MaxCalls, MaxFaults)
  /\ SamplerOff

\* With at most two files in a batch and MaxFaults failures no more than four of
\* the five permits are ever taken, so no coroutine waits for the semaphore
\* here; SpecBatch and SpecSem have the waiting and the Acquire step.
Next ==
  \/ \E u \in Urls, b \in 1..CallBudget : Call(u, b)
  \/ \E i \in DOMAIN req : StartTask(i)
  \/ \E r \in DOMAIN req : Response(r, Statuses, QuotaHeaders)
  \/ \E r \in DOMAIN req : NetworkError(r)
  \/ \E r \in DOMAIN req : Wake(r)
  \/ GatherReturn
  \/ Tick

Spec == Init /\ [][Next]_vars

(***************************************************************************)
(* SpecBatch: one _fetch_file_contents batch, from the moment               *)
(* fetch_with_sampling calls it, over every short list of sampled files    *)
(***************************************************************************)
BatchEntries == {Blob(p) : p \in {P_a_py, P_b_py, P_c_js, P_README}}

\* fetch_with_sampling has received the repository and the tree (two responses,
\* the second with headers h) and hands sampled_files to _fetch_file_contents
AtContentStage(sampled_files, h, failures) ==
  /\ cache = <<>>
  /\ rate_limit_remaining = headers_get(h[1], DEFAULT_REMAINING)
  /\ rate_limit_reset = headers_get(h[2], 0)
  /\ api_calls = 2
  /\ phase = "content"
  /\ op = [url |-> U_o_r_git, max_files |-> Len(sampled_files),
           full_name |-> _parse_url(U_o_r_git).full_name, default_branch |-> "main",
           branch |-> "main", tried |-> <<"main">>, answers |-> <<"valid">>,
           total |-> Len(sampled_files),
           sampled |-> sampled_files, before |-> <<>>]
  /\ req = [r \in 0..Len(sampled_files) |-> IdleFrame]
  /\ tasks = [i \in 1..Len(sampled_files) |-> [result |-> None, outcome |-> "pending"]]
  /\ nstarted = 0
  /\ ret = None
  /\ how = "running"
  /\ issued = 2
  /\ prev = None
  /\ age = 0
  /\ ncalls = 1
  /\ faults = 0
  /\ resp = [status |-> 200, marker |-> FALSE, headers |-> h]
  /\ cancelled = 0
  /\ limits = [calls |-> 1, faults |-> failures]

BatchInit ==
  /\ \E files \in SeqsOfDistinct(BatchEntries, MaxBatch) \ {<<>>}, h \in QuotaHeaders :
       AtContentStage(files, h, BatchFaults)
  /\ SamplerOff

BatchNext ==
  \/ \E i \in DOMAIN req : StartTask(i)
  \/ \E r \in DOMAIN req : Response(r, Statuses, QuotaHeaders)
  \/ \E r \in DOMAIN req : NetworkError(r)
  \/ \E r \in DOMAIN req : Wake(r)
  \/ \E r \in DOMAIN req : Acquire(r)
  \/ GatherReturn
  \/ Tick

SpecBatch == BatchInit /\ [][BatchNext]_vars

(***************************************************************************)
(* SpecSem: one batch of one file more than the semaphore has permits      *)
(***************************************************************************)
SemFiles ==
  Prefix(<<Blob(P_a_py), Blob(P_b_py), Blob(P_D_PY), Blob(P_c_js), Blob(P_e_js),
           Blob(P_README)>>, SEMAPHORE + 1)

SemInit ==
  /\ AtContentStage(SemFiles, NoHeaders, SemFaults)
  /\ SamplerOff

\* the statuses that end a request at once (200, 404) or make it retry (500)
SemStatuses == {200, 404, 500}

SemNext ==
  \/ \E i \in DOMAIN req : StartTask(i)
  \/ \E r \in DOMAIN req : Response(r, SemStatuses, QuotaHeaders)
  \/ \E r \in DOMAIN req : NetworkError(r)
  \/ \E r \in DOMAIN req : Wake(r)
  \/ \E r \in DOMAIN req : Acquire(r)
  \/ GatherReturn
  \/ Tick

SpecSem == SemInit /\ [][SemNext]_vars

(***************************************************************************)
(* SpecQuota: the content request of one file under quota-exhaustion       *)
(* responses with every combination of rate-limit headers                  *)
(***************************************************************************)
QuotaInit ==
  /\ AtContentStage(<<Blob(P_a_py)>>, NoHeaders, QuotaFaults)
  /\ SamplerOff

\* The one task can only come to wait for a permit when its own open frames
\* hold all five, so no Acquire step exists here.
QuotaNext ==
  \/ \E i \in DOMAIN req : StartTask(i)
  \/ \E r \in DOMAIN req : Response(r, {200, 403}, AllHeaders)
  \/ \E r \in DOMAIN req : Wake(r)
  \/ GatherReturn
  \/ Tick

SpecQuota == QuotaInit /\ [][QuotaNext]_vars

(***************************************************************************)
(* SpecRetry: the content request of one file under 5xx responses, network *)
(* errors and timeouts                                                     *)
(***************************************************************************)
RetryInit ==
  /\ AtContentStage(<<Blob(P_a_py)>>, NoHeaders, RetryFaults)
  /\ SamplerOff

RetryNext ==
  \/ \E i \in DOMAIN req : StartTask(i)
  \/ \E r \in DOMAIN req : Response(r, {200, 500}, {NoHeaders})
  \/ \E r \in DOMAIN req : NetworkError(r)
  \/ \E r \in DOMAIN req : RequestTimeout(r)
  \/ \E r \in DOMAIN req : Wake(r)
  \/ GatherReturn
  \/ Tick

SpecRetry == RetryInit /\ [][RetryNext]_vars

(***************************************************************************)
(* SpecHeaders: the content request of one file under every status and     *)
(* every combination of rate-limit headers                                 *)
(***************************************************************************)
HeadersInit ==
  /\ AtContentStage(<<Blob(P_a_py)>>, NoHeaders, HeaderFaults)
  /\ SamplerOff

HeadersNext ==
  \/ \E i \in DOMAIN req : StartTask(i)
  \/ \E r \in DOMAIN req : Response(r, Statuses, AllHeaders)
  \/ \E r \in DOMAIN req : NetworkError(r)
  \/ \E r \in DOMAIN req : RequestTimeout(r)
  \/ \E r \in DOMAIN req : Wake(r)
  \/ GatherReturn
  \/ Tick

SpecHeaders == HeadersInit /\ [][HeadersNext]_vars

(***************************************************************************)
(* SpecCancel: one call that its caller may cancel wherever it is suspended *)
(***************************************************************************)
CancelInit ==
  /\ FetchIdle(1, CancelFaults)
  /\ SamplerOff

CancelNext ==
  \/ \E u \in Urls, b \in 1..CallBudget : Call(u, b)
  \/ \E i \in DOMAIN req : StartTask(i)
  \/ \E r \in DOMAIN req : Response(r, Statuses, QuotaHeaders)
  \/ \E r \in DOMAIN req : NetworkError(r)
  \/ \E r \in DOMAIN req : Wake(r)
  \/ GatherReturn
  \/ Tick
  \/ Cancel

SpecCancel == CancelInit /\ [][CancelNext]_vars

(***************************************************************************)
(* SpecWarm: a call after a call that was cancelled, which finds in the    *)
(* cache the files the cancelled call had fetched                          *)
(***************************************************************************)
WarmInit ==
  /\ FetchIdle(WarmCalls, WarmFaults)
  /\ SamplerOff

WarmNext ==
  \/ \E b \in 1..CallBudget : Call(U_o_r_git, b)
  \/ \E i \in DOMAIN req : StartTask(i)
  \/ \E r \in DOMAIN req : Response(r, Statuses, {NoHeaders})
  \/ \E r \in DOMAIN req : Wake(r)
  \/ GatherReturn
  \/ Tick
  \/ Cancel

SpecWarm == WarmInit /\ [][WarmNext]_vars

(***************************************************************************)
(* SpecUrl: calls with every form of URL, upstream answering 200           *)
(***************************************************************************)
UrlInit ==
  /\ FetchIdle(UrlCalls, 0)
  /\ SamplerOff

UrlNext ==
  \/ \E u \in WideUrls, b \in 1..CallBudget : Call(u, b)
  \/ \E i \in DOMAIN req : StartTask(i)
  \/ \E r \in DOMAIN req : Response(r, {200}, {NoHeaders})
  \/ GatherReturn
  \/ Tick

SpecUrl == UrlInit /\ [][UrlNext]_vars

(***************************************************************************)
(* SpecSample: the sampler applied to every bounded input                  *)
(***************************************************************************)
SampleInit ==
  /\ FetchIdle(0, 0)
  /\ CacheOff
  /\ s_files \in SeqsOfDistinct(RelevantEntries, MaxSampleLen)
  /\ s_max \in 1..MaxBudget
  /\ s_out = <<>>
  /\ s_first = <<>>
  /\ s_pc = "input"

\* the sampling stage of fetch_with_sampling (pass-through or _smart_sample)
SamplingStage ==
  /\ s_pc = "input"
  /\ s_out' = sampling_stage(s_files, s_max)
  /\ s_pc' = "staged"
  /\ UNCHANGED <<s_files, s_max, s_first>>
  /\ UNCHANGED <<fvars, cvars>>

\* a direct call of _smart_sample
CallSmartSample ==
  /\ s_pc = "input"
  /\ s_out' = _smart_sample(s_files, s_max)
  /\ s_pc' = "sampled"
  /\ UNCHANGED <<s_files, s_max, s_first>>
  /\ UNCHANGED <<fvars, cvars>>

\* between two calls of the sampler the fetcher receives a response and stores
\* a file: the rate-limit state, the call counter and the cache change
ResponseBetween(h) ==
  /\ s_pc = "sampled"
  /\ api_calls = 0
  /\ api_calls' = api_calls + 1
  /\ rate_limit_remaining' = headers_get(h[1], DEFAULT_REMAINING)
  /\ rate_limit_reset' = headers_get(h[2], 0)
  /\ resp' = [status |-> 200, marker |-> FALSE, headers |-> h]
  /\ cache' = cache_set(cache, maxsize, file_key(<<"o", "/", "r">>, P_a_py),
                        Utf8Decode(FileBytes(P_a_py)), CACHE_TTL)
  /\ UNCHANGED <<phase, op, req, tasks, nstarted, ret, how, issued, prev, age, ncalls,
                 faults, cancelled, limits>>
  /\ UNCHANGED <<svars, cvars>>

\* _smart_sample called again with the arguments of the call before
CallSmartSampleAgain ==
  /\ s_pc = "sampled"
  /\ s_first' = s_out
  /\ s_out' = _smart_sample(s_files, s_max)
  /\ s_pc' = "again"
  /\ UNCHANGED <<s_files, s_max>>
  /\ UNCHANGED <<fvars, cvars>>

SampleNext ==
  \/ SamplingStage
  \/ CallSmartSample
  \/ \E h \in QuotaHeaders : ResponseBetween(h)
  \/ CallSmartSampleAgain

SpecSample == SampleInit /\ [][SampleNext]_vars

(***************************************************************************)
(* The content-fetch batch                                                 *)
(***************************************************************************)
IsPrefix(s, t) == Len(s) <= Len(t) /\ s = SubSeq(t, 1, Len(s))

\* the indices of the sampled files whose request and decode succeeded
FetchedIndices ==
  SelectSeq([i \in 1..Len(op.sampled) |-> i],
            LAMBDA i : tasks[i].outcome \in {"ok", "hit"})

FailedOutcomes == {"http401", "http403", "http404", "http500", "quota", "neterr"}

\* C1: when _fetch_file_contents has run, whatever failed, fetch_with_sampling
\* returns the fetched result, and its map holds exactly the sampled files whose
\* request and decode succeeded, in sampled order, each with its decoded text
C1_BatchSurvivesFailure ==
  (phase = "idle" /\ tasks # <<>>)
    => /\ how = "fetched"
       /\ Len(ret.files) = Len(FetchedIndices)
       /\ \A k \in 1..Len(FetchedIndices) :
            LET path == op.sampled[FetchedIndices[k]].path
            IN  /\ ret.files[k].path = path
                /\ ret.files[k].content = Str(Utf8CodePoints(FileBytes(path)))

\* a file ends after its retries are exhausted, and the other file is returned
C1_Witness ==
  /\ phase = "idle"
  /\ how = "fetched"
  /\ Len(ret.files) = 1
  /\ \E i, j \in DOMAIN tasks :
       /\ tasks[i].outcome \in {"http500", "http404", "neterr"}
       /\ tasks[j].outcome = "ok"

\* C2: a 401 answer to a content request makes fetch_with_sampling end with an
\* invalid-credential failure, return no file and leave nothing in the cache
C2_CredentialFailureAborts ==
  (phase = "idle" /\ \E i \in DOMAIN tasks : tasks[i].outcome = "http401")
    => /\ how = "invalid_credential"
       /\ ret.files = EmptyMap
       /\ cache = <<>>

InFlight == {r \in DOMAIN req : req[r].pc = "inflight"}

\* C3: at most 5 requests are in flight at once
C3_AtMostFiveInFlight == Cardinality(InFlight) <= SEMAPHORE

\* five requests in flight and a sixth file waiting for a permit
C3_Witness ==
  /\ Cardinality(InFlight) = SEMAPHORE
  /\ \E r \in DOMAIN req : req[r].pc = "semwait"

\* a step in which session.get sends a request
RequestGoesOut == issued' > issued \/ (ncalls' > ncalls /\ issued' = 1)

\* C4: no request goes out while rate_limit_remaining < 10 and the reset time is
\* still ahead
C4_NoRequestWhileQuotaLow ==
  [][RequestGoesOut => ~(rate_limit_remaining' < LOW_WATER /\ rate_limit_reset' > 0)]_vars

\* C5: the map a call returns has at most max_files entries
C5_ResultWithinBudget ==
  (phase = "idle" /\ ret # None) => Len(ret.files) <= op.max_files

\* the running (or last) call repeats the call before it within the TTL
RepeatsCall ==
  /\ ncalls >= 2
  /\ prev.url = op.url
  /\ prev.max_files = op.max_files
  /\ prev.gap < CACHE_TTL

\* C6 as stated: a call that repeats the one before it within the TTL has
\* returned at once, with the same output and without a request
C6_SecondCallIdentical ==
  RepeatsCall => (phase = "idle" /\ ret = prev.ret /\ issued = 0)

\* C6: a call that repeats, within the TTL, a call that fetched its result
\* (resolved a tree and completed the content stage) is served from the cache:
\* same output, no request
C6_SecondCallFromCache ==
  (RepeatsCall /\ prev.how = "fetched")
    => (phase = "idle" /\ how = "hit" /\ ret = prev.ret /\ issued = 0)

\* the second call returns the files of the first one from the cache
C6_Witness ==
  /\ RepeatsCall
  /\ prev.how = "fetched"
  /\ how = "hit"
  /\ Len(ret.files) >= 1
  /\ prev.gap > 0

\* the order of the tree requests for a default branch
ExpectedOrder(default) ==
  CASE default = "main"   -> <<"main", "master">>
    [] default = "master" -> <<"master", "main">>
    [] OTHER              -> <<default, "main", "master">>

\* the entries of a branch after the filter and the sampling stage
SampledOf(branch) ==
  sampling_stage(SelectSeq(BranchTree(branch),
                           LAMBDA f : f.type = "blob" /\ _is_relevant_file(f.path)),
                 op.max_files)

\* C7: the trees are requested in the order default, main, master without a
\* repeated name, one after the other's answer, none after a valid answer; the
\* branch answered validly supplies the entries, and the operation gives up only
\* after every branch has failed
C7_TreeResolutionOrder ==
  LET n == Len(op.tried)
  IN  n > 0 =>
        /\ IsPrefix(op.tried, ExpectedOrder(op.default_branch))
        /\ \A j, k \in 1..n : j # k => op.tried[j] # op.tried[k]
        /\ Len(op.answers) \in {n - 1, n}
        /\ \A k \in 1..Len(op.answers) : op.answers[k] = "valid" => k = n
        /\ (phase = "content" \/ how = "fetched") =>
             /\ Len(op.answers) = n /\ op.answers[n] = "valid"
             /\ op.branch = op.tried[n]
             /\ \/ op.total = 0 /\ op.sampled = <<>>
                \/ /\ op.total = Len(BranchTree(op.tried[n]))
                   /\ op.sampled = SampledOf(op.tried[n])
        /\ how = "no_tree" =>
             /\ op.tried = ExpectedOrder(op.default_branch)
             /\ \A k \in 1..n : op.answers[k] # "valid"

\* 404 on the default branch main, then 200 on master: master's entries
C7_Witness ==
  /\ how = "fetched"
  /\ op.tried = <<"main", "master">>
  /\ op.answers = <<"http404", "valid">>
  /\ op.total = Len(BranchTree("master"))
  /\ op.sampled = <<Blob(P_c_js)>>

RECURSIVE WellFormedUtf8(_)
\* byte strings that are UTF-8 text (one- and two-byte sequences)
WellFormedUtf8(bytes) ==
  \/ bytes = <<>>
  \/ bytes[1] < 128 /\ WellFormedUtf8(Tail(bytes))
  \/ /\ Len(bytes) >= 2
     /\ bytes[1] \in 194..223
     /\ bytes[2] \in 128..191
     /\ WellFormedUtf8(SubSeq(bytes, 3, Len(bytes)))

\* the sampled files that are binary / that have no content at all
BinaryFiles ==
  {i \in 1..Len(op.sampled) : ~WellFormedUtf8(FileBytes(op.sampled[i].path))}

EmptyFiles == {i \in 1..Len(op.sampled) : FileBytes(op.sampled[i].path) = <<>>}

\* every request of the batch ended with a 200 answer
AllRequestsSucceeded ==
  /\ phase = "idle"
  /\ tasks # <<>>
  /\ \A i \in DOMAIN tasks : tasks[i].outcome \in {"ok", "binary", "nocontent"}

NothingCachedFor(files) ==
  \A i \in files, k \in 1..Len(cache) :
    cache[k].key # file_key(op.full_name, op.sampled[i].path)

NoDuplicatePath(s) == \A i, j \in 1..Len(s) : i # j => s[i].path # s[j].path

ExtensionSet(s) == {_get_extension(s[i].path) : i \in 1..Len(s)}

\* C9: with budget >= number of extensions, the sampling stage returns exactly
\* min(budget, |filtered|) entries, no path twice, every extension represented
C9_SamplerFillsBudget ==
  (s_pc = "staged" /\ s_max >= Cardinality(ExtensionSet(s_files)))
    => /\ Len(s_out) = Min(s_max, Len(s_files))
       /\ NoDuplicatePath(s_out)
       /\ ExtensionSet(s_out) = ExtensionSet(s_files)

C9_Witness ==
  /\ s_pc = "staged"
  /\ Len(s_files) > s_max
  /\ Cardinality(ExtensionSet(s_files)) = 3
  /\ s_max = 4
  /\ Len(s_out) = 4

\* C10: with 1 <= budget < number of extensions, _smart_sample returns budget
\* entries whose extensions are pairwise distinct
C10_DistinctExtensions ==
  (s_pc = "sampled" /\ s_max < Cardinality(ExtensionSet(s_files)))
    => /\ Len(s_out) = s_max
       /\ \A i, j \in 1..Len(s_out) :
            i # j => _get_extension(s_out[i].path) # _get_extension(s_out[j].path)

C10_Witness ==
  /\ s_pc = "sampled"
  /\ s_max = 2
  /\ Cardinality(ExtensionSet(s_files)) = 3
  /\ Len(by_extension(s_files, _get_extension(s_files[1].path))) >= 2
  /\ Len(s_out) = 2

(***************************************************************************)
(* SpecCache: a SimpleCache(maxsize=CacheCap) under get, set and clear      *)
(***************************************************************************)
CacheKeys == {"k1", "k2", "k3"}

\* the strings "v" and "w"
CacheValues == {Str(<<118>>), Str(<<119>>)}

\* SimpleCache.__init__
CacheInit ==
  /\ FetchIdle(0, 0)
  /\ s_files = <<>> /\ s_max = 0 /\ s_out = <<>> /\ s_first = <<>> /\ s_pc = "off"
  /\ c_op = [name |-> "none"]
  /\ c_last = [k \in CacheKeys |-> None]
  /\ c_sets = 0

CacheFrame ==
  UNCHANGED <<svars, rate_limit_remaining, rate_limit_reset, api_calls, phase, op, req,
              tasks, nstarted, ret, how, issued, prev, age, ncalls, faults, resp,
              cancelled, limits>>

\* SimpleCache.get(key)
CacheGet(key) ==
  /\ c_op' = [name |-> "get", key |-> key, value |-> cache_get_value(cache, key),
              before |-> cache]
  /\ cache' = cache_get_store(cache, key)
  /\ UNCHANGED <<c_last, c_sets>>
  /\ CacheFrame

\* SimpleCache.set(key, value, ttl)
CacheSet(key, value, ttl) ==
  /\ c_sets < MaxSets
  /\ c_sets' = c_sets + 1
  /\ c_op' = [name |-> "set", key |-> key, value |-> value, before |-> cache]
  /\ cache' = cache_set(cache, CacheCap, key, value, ttl)
  /\ c_last' = [c_last EXCEPT ![key] = [value |-> value, left |-> ttl]]
  /\ CacheFrame

\* SimpleCache.clear()
CacheClear ==
  /\ cache # <<>>
  /\ c_op' = [name |-> "clear", before |-> cache]
  /\ cache' = <<>>
  /\ UNCHANGED <<c_last, c_sets>>
  /\ CacheFrame

\* a second passes on time.time()
CacheTick ==
  /\ \E i \in 1..Len(cache) : cache[i].expiry > 0
  /\ cache' = [i \in 1..Len(cache) |-> [cache[i] EXCEPT !.expiry = Max(@ - 1, 0)]]
  /\ c_last' = [k \in CacheKeys |->
                  IF c_last[k] = None THEN None
                  ELSE [c_last[k] EXCEPT !.left = Max(@ - 1, 0)]]
  /\ c_op' = [name |-> "none"]
  /\ UNCHANGED c_sets
  /\ CacheFrame

CacheNext ==
  \/ \E k \in CacheKeys : CacheGet(k)
  \/ \E k \in CacheKeys, v \in CacheValues, ttl \in 0..MaxTtl : CacheSet(k, v, ttl)
  \/ CacheClear
  \/ CacheTick

SpecCache == CacheInit /\ [][CacheNext]_vars

\* key has an entry in store c
Stored(c, key) == \E i \in 1..Len(c) : c[i].key = key

\* store c without the entries of key
Without(c, key) == SelectSeq(c, LAMBDA e : e.key # key)

\* C14: get of a stored key returns the value of the most recent set of that
\* key while its time is not up, and changes nothing; once the time is up it
\* returns None and removes the entry; get of a key that is not stored returns
\* None and changes nothing
C14_GetReturnsLiveValue ==
  c_op.name = "get" =>
    LET key  == c_op.key
        last == c_last[key]
    IN  IF ~Stored(c_op.before, key)
          THEN c_op.value = None /\ cache = c_op.before
        ELSE IF last.left > 0
          THEN c_op.value = last.value /\ cache = c_op.before
        ELSE /\ c_op.value = None
             /\ cache = Without(c_op.before, key)
             /\ Len(cache) = Len(c_op.before) - 1

\* get of a key whose time is up, next to a live entry that stays
C14_Witness ==
  /\ c_op.name = "get"
  /\ Stored(c_op.before, c_op.key)
  /\ c_last[c_op.key].left = 0
  /\ c_op.value = None
  /\ Len(cache) = 1
  /\ cache[1].expiry > 0

\* the entry of key in store c holds the pair of the most recent set
HoldsLatest(c, key) ==
  \E i \in 1..Len(c) :
    /\ c[i].key = key
    /\ c[i].value = c_last[key].value
    /\ c[i].expiry = c_last[key].left

\* C15: set on a store of maxsize entries removes the oldest-inserted entry and
\* no other, whatever their expiry, and stores the key; below maxsize it
\* removes nothing and stores the key
C15_SetEvictsOldest ==
  c_op.name = "set" =>
    LET key  == c_op.key
        kept == IF Len(c_op.before) >= CacheCap THEN Tail(c_op.before)
                ELSE c_op.before
    IN  /\ Without(cache, key) = Without(kept, key)
        /\ HoldsLatest(cache, key)
        /\ Len(cache) = Len(Without(kept, key)) + 1
        /\ Len(cache) <= CacheCap

\* a full store whose oldest entry is live and whose other entry has expired:
\* set of a new key removes the live one and keeps the expired one
C15_Witness ==
  /\ c_op.name = "set"
  /\ Len(c_op.before) = CacheCap
  /\ c_op.before[1].expiry > 0
  /\ c_op.before[2].expiry = 0
  /\ ~Stored(c_op.before, c_op.key)
  /\ ~Stored(cache, c_op.before[1].key)
  /\ Stored(cache, c_op.before[2].key)

FailureReturns == {"invalid_url", "no_repo", "no_tree"}

\* C12: what a call returns on an invalid URL, an unavailable repository (a
\* rejected credential included) or an unavailable tree differs from what a
\* call that fetched successfully returned
C12_FailureDistinguishable ==
  (ncalls >= 2 /\ phase = "idle" /\ how \in FailureReturns /\ prev.how = "fetched")
    => ret # prev.ret

\* what follows scheme and host in a URL of the model
AfterHost(url) ==
  IF Len(url) >= 5 /\ SubSeq(url, 1, 5) = SCHEME_HOST THEN SubSeq(url, 6, Len(url))
  ELSE IF url # <<>> /\ url[1] = "g" THEN Tail(url)
  ELSE url

\* the URL names an owner and, right after it, a repository
CarriesOwnerAndName(url) ==
  LET tail == AfterHost(url)
      segs == Split(IF tail # <<>> /\ tail[1] = "/" THEN Tail(tail) ELSE tail, "/")
  IN  /\ Len(segs) >= 2
      /\ segs[1] # <<>>
      /\ segs[2] \notin {<<>>, DOT_GIT}

\* C13: a call whose URL lacks the owner or the repository name returns at once
\* as an invalid URL: no request, api_calls and the cache as they were
C13_InvalidUrlNoRequest ==
  [][(ncalls' > ncalls /\ ~CarriesOwnerAndName(op'.url))
       => /\ phase' = "idle"
          /\ how' = "invalid_url"
          /\ issued' = 0
          /\ api_calls' = api_calls
          /\ cache' = cache]_vars

(***************************************************************************)
(* The cache as an optimization                                            *)
(***************************************************************************)
RECURSIVE FreshFiles(_)
\* the map a fetch without any cache builds from a sampled list when upstream
\* answers every content request with 200
FreshFiles(sampled) ==
  IF sampled = <<>> THEN <<>>
  ELSE LET path  == Head(sampled).path
           bytes == FileBytes(path)
       IN  (IF bytes # <<>> /\ WellFormedUtf8(bytes)
              THEN <<[path      |-> path,
                      content   |-> Str(Utf8CodePoints(bytes)),
                      size      |-> Len(Utf8CodePoints(bytes)),
                      extension |-> _get_extension(path)]>>
              ELSE <<>>)
           \o FreshFiles(Tail(sampled))

\* what fetch_with_sampling returns without any cache for a repository whose
\* tree is served from branch
FreshResult(branch, max_files) ==
  LET relevant == SelectSeq(BranchTree(branch),
                            LAMBDA f : f.type = "blob" /\ _is_relevant_file(f.path))
  IN  [files |-> FreshFiles(sampling_stage(relevant, max_files)),
       total |-> Len(BranchTree(branch))]

\* the call before fetched the repository from an upstream that answered every
\* request with 200 and the tree of its branch
FetchedFromSteadyUpstream ==
  /\ ncalls >= 2
  /\ faults = 0
  /\ prev.how = "fetched"
  /\ prev.ret = FreshResult(prev.branch, prev.max_files)

\* C16: a call served from the cache returns what a fetch without any cache
\* returns from the same upstream
C16_CacheTransparent ==
  (FetchedFromSteadyUpstream /\ phase = "idle" /\ how = "hit")
    => ret = FreshResult(prev.branch, op.max_files)

(***************************************************************************)
(* Termination                                                             *)
(***************************************************************************)
\* every unfinished coroutine waits for a permit of the semaphore, and all
\* permits are held by the open frames of these same coroutines
BlockedOnSemaphore ==
  /\ phase # "idle"
  /\ Started
  /\ \E r \in DOMAIN req : req[r].pc = "semwait"
  /\ \A r \in DOMAIN req : req[r].pc \in {"semwait", "done", "idle"}
  /\ PermitsHeld(req) = SEMAPHORE

\* C17: no call ends up with its coroutines blocked on the semaphore for ever
C17_NeverBlockedForever == ~BlockedOnSemaphore

(***************************************************************************)
(* Retries                                                                 *)
(***************************************************************************)
Backoff == {"sleep5xx", "sleepnet"}

\* the request of coroutine r fails in this step (5xx, network error, timeout)
FailsIn(r) == req[r].pc = "inflight" /\ faults' = faults + 1

\* C18: a request that fails with attempts left sleeps 2^attempt seconds and is
\* then issued again under the attempt counter plus one; a request that fails
\* at the cap of 3 ends with None and is not issued again
C18_BackoffRetryPolicy ==
  [][\A r \in DOMAIN req \cap DOMAIN req' :
       /\ FailsIn(r) =>
            IF req[r].retry < max_retries
              THEN /\ req'[r].pc \in Backoff
                   /\ req'[r].sleep = 2 ^ req[r].retry
                   /\ req'[r].retry = req[r].retry
              ELSE /\ req'[r].pc = "done"
                   /\ tasks'[r].result = None
       /\ (req[r].pc \in Backoff /\ req'[r].pc # req[r].pc) =>
            /\ req[r].sleep = 0
            /\ req'[r].pc = "inflight"
            /\ req'[r].retry = req[r].retry + 1
       /\ req[r].pc = "done" => req'[r].pc = "done"]_vars

(***************************************************************************)
(* Quota exhaustion                                                        *)
(***************************************************************************)
\* C19: a request is issued again at most once on account of quota exhaustion
C19_QuotaRetryOnce == \A r \in DOMAIN req : req[r].requota <= 1

\* C20: a failure response to a content request whose reset time is absent or
\* an hour or more ahead ends that request at once with no data: no sleep, no
\* re-issue, and the gather goes on with the item recorded as failed
C20_LongWaitFailsAtOnce ==
  [][\A r \in DOMAIN req \ {0} :
       (/\ req[r].pc = "inflight"
        /\ faults' = faults + 1
        /\ rate_limit_reset' \notin 1..(ONE_HOUR - 1))
       => /\ req'[r].pc = "done"
          /\ req'[r].sleep = 0
          /\ issued' = issued
          /\ tasks'[r].result = None
          /\ tasks'[r].outcome \in {"quota", "http403"}
          /\ phase' = "content"]_vars

\* the batch returned after its one request failed on its first response, a
\* quota response whose reset time is an hour ahead
C20_Witness ==
  /\ phase = "idle"
  /\ how = "fetched"
  /\ Len(tasks) = 1
  /\ tasks[1].outcome = "quota"
  /\ rate_limit_reset = ONE_HOUR
  /\ faults = 1
  /\ ret = [files |-> EmptyMap, total |-> 1]

(***************************************************************************)
(* Statuses that end a request                                             *)
(***************************************************************************)
\* the step is the arrival of a response to the request of coroutine r
Answered(r) ==
  /\ req[r].pc = "inflight"
  /\ req'[r] # req[r]
  /\ api_calls' = api_calls + 1

\* C21: a 404 response, or a 403 response without the rate-limit marker, to a
\* content request ends the request in that step with no data: no sleep, no
\* further request, the item recorded as failed and the gather going on
C21_PlainFailureEndsRequest ==
  [][\A r \in DOMAIN req \ {0} :
       (/\ Answered(r)
        /\ resp'.status = 404 \/ (resp'.status = 403 /\ ~resp'.marker))
       => /\ req'[r].pc = "done"
          /\ req'[r].sleep = 0
          /\ issued' = issued
          /\ tasks'[r].result = None
          /\ tasks'[r].outcome = IF resp'.status = 404 THEN "http404" ELSE "http403"
          /\ phase' = "content"]_vars

\* a batch returned in which the only failing response was a 404 and every file
\* was requested exactly once
C21_Witness ==
  /\ phase = "idle"
  /\ how = "fetched"
  /\ faults = 1
  /\ \E i \in DOMAIN tasks : tasks[i].outcome = "http404"
  /\ issued = 2 + Len(tasks)

(***************************************************************************)
(* The rate-limit state                                                    *)
(***************************************************************************)
\* time passes: rate_limit_reset, kept as seconds from now, and every running
\* sleep come nearer by the same number of seconds
TimePasses ==
  \E d \in 1..rate_limit_reset :
    /\ rate_limit_reset' = rate_limit_reset - d
    /\ \A r \in DOMAIN req : req'[r].sleep = Max(req[r].sleep - d, 0)

\* _make_request returned the parsed body to _fetch_single_file
GotData(r) == tasks'[r].outcome \in {"ok", "binary", "nocontent"}

\* C22: a step in which a response arrives leaves in rate_limit_remaining and
\* rate_limit_reset the values of its two headers, 5000 and 0 standing in for
\* an absent header, whatever the status, and a 200 response yields its data
\* whether or not it has the headers; every other step leaves
\* rate_limit_remaining alone and rate_limit_reset pointing at the same moment
C22_RateStateFollowsResponse ==
  [][IF api_calls' # api_calls
       THEN /\ rate_limit_remaining' =
                 IF resp'.headers[1] = <<>> THEN 5000 ELSE resp'.headers[1][1]
            /\ rate_limit_reset' =
                 IF resp'.headers[2] = <<>> THEN 0 ELSE resp'.headers[2][1]
            /\ \A r \in DOMAIN req \ {0} :
                 Answered(r) /\ resp'.status = 200 => GotData(r)
       ELSE /\ rate_limit_remaining' = rate_limit_remaining
            /\ rate_limit_reset' = rate_limit_reset \/ TimePasses
            /\ resp' = resp]_vars

\* the second failing response, a 500 without headers, has left the defaults
\* in the rate-limit state, and its backoff sleep has run out
C22_Witness ==
  /\ resp.status = 500
  /\ resp.headers = NoHeaders
  /\ rate_limit_remaining = 5000
  /\ rate_limit_reset = 0
  /\ faults = 2
  /\ \E r \in DOMAIN req : req[r].pc = "sleep5xx" /\ req[r].sleep = 0

\* rate_limit_remaining and rate_limit_reset are the two values one response
\* left (the last one; none yet: the values of __init__), the reset time
\* nearer by the time passed since
PairOfOneResponse ==
  LET h == IF resp = None THEN NoHeaders ELSE resp.headers
  IN  /\ rate_limit_remaining = IF h[1] = <<>> THEN 5000 ELSE h[1][1]
      /\ rate_limit_reset <= IF h[2] = <<>> THEN 0 ELSE h[2][1]

\* coroutine r runs the rate-limit check in this step and decides to wait
ReadsAndWaits(r) == req[r].pc # "rlwait" /\ req'[r].pc = "rlwait"

\* C23: in every state the coroutines can observe, the two fields are a pair
\* written by one response, and the rate-limit check reads both in one step:
\* a coroutine that decides to wait saw that pair low and sleeps until its
\* reset time
C23_NoTornRateState ==
  /\ []PairOfOneResponse
  /\ [][\A r \in DOMAIN req :
          ReadsAndWaits(r) => /\ rate_limit_remaining < 10
                              /\ req'[r].sleep = rate_limit_reset
                              /\ req'[r].sleep > 0]_vars

\* a task woken from its backoff reads the pair that the response to the other
\* task wrote meanwhile, and waits for the reset
C23_Witness ==
  /\ Len(tasks) = 2
  /\ req[1].pc = "rlwait"
  /\ req[1].retry = 1
  /\ req[1].sleep = ResetSoon
  /\ tasks[2].outcome = "ok"
  /\ resp = [status |-> 200, marker |-> FALSE, headers |-> LowSoon]
  /\ rate_limit_remaining = 5
  /\ rate_limit_reset = ResetSoon

(***************************************************************************)
(* Cancellation                                                            *)
(***************************************************************************)
\* the running (or last) call is the one its caller cancelled
WasCancelled == cancelled # 0 /\ cancelled = ncalls

\* entry e of the cache holds the whole decoded content of a sampled file whose
\* fetch has finished
CompleteFileEntry(e) ==
  \E i \in DOMAIN tasks :
    /\ tasks[i].outcome = "ok"
    /\ e.key = file_key(op.full_name, op.sampled[i].path)
    /\ e.value = Str(Utf8CodePoints(FileBytes(op.sampled[i].path)))
    /\ e.value = tasks[i].result

\* C24: a cancelled call has ended at once with CancelledError, no entry is
\* stored under its repository key, and every entry stored under a file key
\* holds the whole decoded content of a file whose fetch had finished
C24_CancelWritesNoPartialEntry ==
  WasCancelled
    => /\ phase = "idle"
       /\ ret = Raised("CancelledError")
       /\ ~Stored(cache, repo_key(op.full_name))
       /\ \A k \in 1..Len(cache) : cache[k].key[1] = "file" => CompleteFileEntry(cache[k])

\* a call cancelled during the content stage, one file fetched and cached, the
\* request of the other still under way
C24_Witness ==
  /\ WasCancelled
  /\ Len(tasks) = 2
  /\ tasks[1].outcome = "ok"
  /\ tasks[2].outcome = "pending"
  /\ Len(cache) = 1

(***************************************************************************)
(* Empty and malformed trees                                               *)
(***************************************************************************)
\* the tree response for the default branch had an entry list with no entry
\* (every branch upstream has entries, so a total of 0 is the empty response)
DefaultTreeEmpty ==
  Len(op.answers) >= 1 /\ op.answers[1] = "valid" /\ op.total = 0

\* the tree response for the default branch had no entry list
DefaultTreeMalformed == Len(op.answers) >= 1 /\ op.answers[1] = "malformed"

\* C25: a call that returned after an empty or a malformed tree response for
\* the default branch has requested the tree of a fallback branch
C25_EmptyOrMalformedTreeFallsBack ==
  (/\ phase = "idle"
   /\ how \in {"fetched", "no_tree"}
   /\ DefaultTreeEmpty \/ DefaultTreeMalformed)
    => Len(op.tried) >= 2

(***************************************************************************)
(* Failures before the content stage                                       *)
(***************************************************************************)
\* the call has returned a failure of the stages before the content stage
FailedEarly == phase = "idle" /\ how \in FailureReturns

\* C26 as stated: a call that failed before the content stage has started no
\* content request and the cache has the keys and values it had at the call
C26_EarlyFailureLeavesCache ==
  FailedEarly => (tasks = <<>> /\ KeysValues(cache) = op.before)

\* C26: a call that failed before the content stage has started no content
\* request and has stored nothing; of the keys and values the cache had at the
\* call, all that is gone is the entry under the call's repository key, which
\* the lookup deleted because its time was up
C26_EarlyFailureStoresNothing ==
  FailedEarly
    => /\ tasks = <<>>
       /\ KeysValues(cache) =
            IF how = "invalid_url" THEN op.before
            ELSE Without(op.before, repo_key(op.full_name))

\* a call that found the expired result of the call before, deleted it, and
\* failed on the repository request; the files of the call before stay cached
C26_Witness ==
  /\ FailedEarly
  /\ how = "no_repo"
  /\ Stored(op.before, repo_key(op.full_name))
  /\ ~Stored(cache, repo_key(op.full_name))
  /\ Len(cache) >= 1

(***************************************************************************)
(* The file-level cache                                                    *)
(***************************************************************************)
\* task i of the gather starts in this step
Starts(i) == phase = "content" /\ nstarted = i - 1 /\ nstarted' = i

\* the entries of store c under key whose time is not up
LiveEntries(c, key) == {k \in 1..Len(c) : c[k].key = key /\ c[k].expiry > 0}

\* entry e of the store after the step was written in the step
WrittenNow(e) ==
  ~\E k \in 1..Len(cache) :
     cache[k].key = e.key /\ cache[k].value = e.value /\ cache[k].expiry >= e.expiry

\* C27: a task that starts with a live entry under the key of its file returns
\* the value of that entry and makes no request; and an entry is written under
\* a file key only in the step in which the request of that file is answered
\* 200 and its content decodes, with the decoded content as its value
C27_FileCacheServesAndStoresDecoded ==
  [][/\ \A i \in DOMAIN req \ {0} :
          (Starts(i) /\ LiveEntries(cache, file_key(op.full_name, op.sampled[i].path)) # {})
          => /\ \E k \in LiveEntries(cache, file_key(op.full_name, op.sampled[i].path)) :
                  tasks'[i].result = cache[k].value
             /\ tasks'[i].outcome = "hit"
             /\ req'[i].pc = "done"
             /\ issued' = issued
             /\ api_calls' = api_calls
     /\ \A k \in 1..Len(cache') :
          (cache'[k].key[1] = "file" /\ WrittenNow(cache'[k]))
          => \E i \in DOMAIN req \ {0} :
               /\ Answered(i)
               /\ resp'.status = 200
               /\ tasks'[i].outcome = "ok"
               /\ cache'[k].key = file_key(op.full_name, op.sampled[i].path)
               /\ cache'[k].value = Str(Utf8CodePoints(FileBytes(op.sampled[i].path)))
               /\ cache'[k].value = tasks'[i].result]_vars

\* the second call, made after the first was cancelled, has served one file
\* from the cache without a request and fetched and stored the other
C27_Witness ==
  /\ ncalls = 2
  /\ phase = "content"
  /\ Len(tasks) = 2
  /\ \E i, j \in DOMAIN tasks : tasks[i].outcome = "hit" /\ tasks[j].outcome = "ok"
  /\ issued = 3
  /\ Len(cache) = 2

(***************************************************************************)
(* The size of the cache                                                   *)
(***************************************************************************)
\* C28: whatever get, set and clear calls were made, the store has at most
\* maxsize entries, and no key twice
C28_SizeWithinMaxsize ==
  /\ Len(cache) <= CacheCap
  /\ \A i, j \in 1..Len(cache) : i # j => cache[i].key # cache[j].key

\* a new key has been set on a full store, which holds an expired entry next
\* to the new one
C28_Witness ==
  /\ c_op.name = "set"
  /\ Len(c_op.before) = CacheCap
  /\ ~Stored(c_op.before, c_op.key)
  /\ Len(cache) = CacheCap
  /\ \E i \in 1..Len(cache) : cache[i].expiry = 0 /\ cache[i].key # c_op.key
  /\ \E i \in 1..Len(cache) : cache[i].expiry > 0 /\ cache[i].key = c_op.key

(***************************************************************************)
(* The sampled set                                                         *)
(***************************************************************************)
\* C29: whatever the budget, below or above the number of extensions,
\* _smart_sample returns at most max_files entries, no path twice, each of
\* them an entry of its input and so a blob
C29_SampleWithinInput ==
  s_pc = "sampled"
    => /\ Len(s_out) <= s_max
       /\ NoDuplicatePath(s_out)
       /\ \A i \in 1..Len(s_out) : InSeq(s_out[i], s_files) /\ s_out[i].type = "blob"

\* three files of one extension and one of another under a budget of four: the
\* second pass has added the third file of the large group
C29_Witness ==
  /\ s_pc = "sampled"
  /\ s_max = 4
  /\ Len(s_files) = 4
  /\ Cardinality(ExtensionSet(s_files)) = 2
  /\ Len(by_extension(s_files, _get_extension(s_files[1].path))) = 3
  /\ Len(s_out) = 4

(***************************************************************************)
(* The second pass against its reference                                   *)
(***************************************************************************)
\* the entries of one extension that the first pass has not taken
Untaken(files, taken, ext) ==
  SelectSeq(by_extension(files, ext), LAMBDA f : ~InSeq(f, taken))

\* ext put behind every extension with at least as many untaken entries
RankInsert(ranked, files, taken, ext) ==
  LET n == Len(Untaken(files, taken, ext))
      k == Cardinality({i \in 1..Len(ranked) :
                          Len(Untaken(files, taken, ranked[i])) >= n})
  IN  SubSeq(ranked, 1, k) \o <<ext>> \o SubSeq(ranked, k + 1, Len(ranked))

RECURSIVE RankByUntaken(_, _, _)
\* the extensions by untaken entry count, descending, ties in first-seen order
RankByUntaken(exts, files, taken) ==
  IF exts = <<>> THEN <<>>
  ELSE RankInsert(RankByUntaken(SubSeq(exts, 1, Len(exts) - 1), files, taken),
                  files, taken, exts[Len(exts)])

RECURSIVE GreedyFill(_, _, _, _, _)
\* the free slots filled from the ranked groups, until none is free or no
\* entry remains
GreedyFill(ranked, files, taken, filled, free) ==
  IF ranked = <<>> \/ free <= 0 THEN filled
  ELSE LET rest == Untaken(files, taken, Head(ranked))
           take == Min(free, Len(rest))
       IN  GreedyFill(Tail(ranked), files, taken, filled \o Prefix(rest, take),
                      free - take)

\* what the first pass of _smart_sample took
FirstPassOf(files, max_files) ==
  first_pass(files, extensions_of(files),
             per_extension(max_files, Len(extensions_of(files))))

\* C30: when the first pass took fewer than max_files entries, _smart_sample
\* returns them followed by the entries the greedy fill takes from the groups
\* ranked by untaken count
C30_SecondPassMatchesReference ==
  (s_pc = "sampled" /\ s_files # <<>> /\ Len(FirstPassOf(s_files, s_max)) < s_max)
    => LET first == FirstPassOf(s_files, s_max)
       IN  s_out = GreedyFill(RankByUntaken(extensions_of(s_files), s_files, first),
                              s_files, first, first, s_max - Len(first))

\* two groups with untaken entries, the smaller seen first, and one free slot:
\* it went to the larger group
C30_Witness ==
  /\ s_pc = "sampled"
  /\ s_max = 3
  /\ Len(s_files) = 5
  /\ Cardinality(ExtensionSet(s_files)) = 2
  /\ Len(by_extension(s_files, _get_extension(s_files[1].path))) = 2
  /\ Len(s_out) = 3
  /\ _get_extension(s_out[3].path) # _get_extension(s_files[1].path)

====
